---- MODULE Spec2Model ----
(***************************************************************************)
(* Subscription-Slayer (src/app.py): the value scorer, the dashboard       *)
(* aggregation and the add / edit / delete handlers over the stored        *)
(* subscriptions.                                                          *)
(*                                                                         *)
(* Subscription.cost is a db.Float column and every amount the handlers    *)
(* compute is a Python float, i.e. an IEEE-754 binary64 number.  Amounts   *)
(* are modelled as binary64 values, bit for bit: a finite value is         *)
(* s * m * 2^e with m an odd natural below 2^53 (or zero), and every       *)
(* operation rounds its exact result to nearest, ties to even, as the      *)
(* hardware does.  The 53-bit significands do not fit the model checker's  *)
(* integers, so naturals are kept as little-endian sequences of limbs.     *)
(* Exponent overflow and subnormals are out of the range of the amounts    *)
(* used here and are not modelled.                                         *)
(***************************************************************************)
EXTENDS Integers, Sequences, FiniteSets, TLC

(* ---------------- naturals of arbitrary size ---------------- *)
LimbBits == 3 * 5
Base == 2^LimbBits

RECURSIVE BNorm(_)
BNorm(a) ==
  IF a = <<>> THEN a
  ELSE IF a[Len(a)] = 0 THEN BNorm(SubSeq(a, 1, Len(a) - 1)) ELSE a

RECURSIVE BFromInt(_)
BFromInt(n) == IF n = 0 THEN <<>> ELSE <<n % Base>> \o BFromInt(n \div Base)

RECURSIVE BToInt(_)
BToInt(a) == IF a = <<>> THEN 0 ELSE Head(a) + Base * BToInt(Tail(a))

RECURSIVE BAddC(_, _, _)
BAddC(a, b, c) ==
  IF a = <<>> /\ b = <<>> THEN (IF c = 0 THEN <<>> ELSE <<c>>)
  ELSE LET x == IF a = <<>> THEN 0 ELSE Head(a)
           y == IF b = <<>> THEN 0 ELSE Head(b)
           t == x + y + c
       IN  <<t % Base>> \o BAddC(IF a = <<>> THEN a ELSE Tail(a),
                                 IF b = <<>> THEN b ELSE Tail(b),
                                 t \div Base)

BAdd(a, b) == BAddC(a, b, 0)

RECURSIVE BSubB(_, _, _)
BSubB(a, b, br) ==
  IF a = <<>> THEN <<>>
  ELSE LET y == IF b = <<>> THEN 0 ELSE Head(b)
           t == Head(a) - y - br
       IN  <<IF t < 0 THEN t + Base ELSE t>>
             \o BSubB(Tail(a), IF b = <<>> THEN b ELSE Tail(b),
                      IF t < 0 THEN 1 ELSE 0)

\* a - b for a >= b
BSub(a, b) == BNorm(BSubB(a, b, 0))

RECURSIVE BCmpAt(_, _, _)
BCmpAt(a, b, i) ==
  IF i = 0 THEN 0
  ELSE IF a[i] < b[i] THEN -1
  ELSE IF a[i] > b[i] THEN 1
  ELSE BCmpAt(a, b, i - 1)

BCmp(a, b) ==
  IF Len(a) < Len(b) THEN -1
  ELSE IF Len(a) > Len(b) THEN 1
  ELSE BCmpAt(a, b, Len(a))

RECURSIVE BMulC(_, _, _)
BMulC(a, k, c) ==
  IF a = <<>> THEN (IF c = 0 THEN <<>> ELSE <<c>>)
  ELSE LET t == Head(a) * k + c
       IN  <<t % Base>> \o BMulC(Tail(a), k, t \div Base)

RECURSIVE BMul(_, _)
BMul(a, b) ==
  IF a = <<>> \/ b = <<>> THEN <<>>
  ELSE LET rest == BMul(a, Tail(b))
       IN  BNorm(BAdd(BMulC(a, Head(b), 0),
                      IF rest = <<>> THEN rest ELSE <<0>> \o rest))

RECURSIVE BDivAt(_, _, _, _)
BDivAt(a, d, i, r) ==
  IF i = 0 THEN [q |-> <<>>, r |-> r]
  ELSE LET cur  == r * Base + a[i]
           rest == BDivAt(a, d, i - 1, cur % d)
       IN  [q |-> rest.q \o <<cur \div d>>, r |-> rest.r]

\* quotient and remainder of a by a one-limb divisor d
BDivSmall(a, d) ==
  LET x == BDivAt(a, d, Len(a), 0) IN [q |-> BNorm(x.q), r |-> x.r]

BShl(a, n) ==
  IF a = <<>> THEN a
  ELSE [i \in 1..(n \div LimbBits) |-> 0] \o BMulC(a, 2^(n % LimbBits), 0)

\* a shifted right by n bits, and whether a non-zero bit was shifted out
BShr(a, n) ==
  LET k == n \div LimbBits
  IN  IF k >= Len(a) THEN [q |-> <<>>, lost |-> a # <<>>]
      ELSE LET d == BDivSmall(SubSeq(a, k + 1, Len(a)), 2^(n % LimbBits))
           IN  [q |-> d.q,
                lost |-> d.r # 0 \/ \E i \in 1..k : a[i] # 0]

RECURSIVE ILen(_)
ILen(n) == IF n = 0 THEN 0 ELSE 1 + ILen(n \div 2)

BitLen(a) == IF a = <<>> THEN 0 ELSE LimbBits * (Len(a) - 1) + ILen(a[Len(a)])

BOdd(a) == a # <<>> /\ a[1] % 2 = 1

(* ---------------- binary64 ---------------- *)
Precision == 52 + 1

Val(k, s, m, e) == [k |-> k, s |-> s, m |-> m, e |-> e]

Zero == Val("fin", 1, <<>>, 0)
NaN == Val("nan", 1, <<>>, 0)
Inf(s) == Val("inf", s, <<>>, 0)
None == Val("none", 1, <<>>, 0)
Str == Val("str", 1, <<>>, 0)

\* the unique representation of s * m * 2^e: m odd, or zero
RECURSIVE Canon(_, _, _)
Canon(s, m, e) ==
  IF m = <<>> THEN Zero
  ELSE IF BOdd(m) THEN Val("fin", s, m, e)
  ELSE IF m[1] = 0 THEN Canon(s, Tail(m), e + LimbBits)
  ELSE Canon(s, BDivSmall(m, 2).q, e + 1)

\* s * (n * 2^e, plus a little more when sticky) rounded to nearest, ties to even
FRound(s, n, e, sticky) ==
  LET len == BitLen(n)
  IN  IF len <= Precision THEN Canon(s, n, e)
      ELSE LET k    == len - Precision
               t    == BShr(n, k - 1)
               half == BOdd(t.q)
               q    == BDivSmall(t.q, 2).q
               up   == half /\ (t.lost \/ sticky \/ BOdd(q))
           IN  Canon(s, IF up THEN BAdd(q, <<1>>) ELSE q, e + k)

FInt(n) == IF n < 0 THEN Canon(-1, BFromInt(-n), 0) ELSE Canon(1, BFromInt(n), 0)

IsFin(x) == x.k = "fin"
IsNum(x) == x.k \in {"fin", "inf", "nan"}
IsZero(x) == x.k = "fin" /\ x.m = <<>>

FinAdd(x, y) ==
  LET emin == IF x.e < y.e THEN x.e ELSE y.e
      X == BShl(x.m, x.e - emin)
      Y == BShl(y.m, y.e - emin)
      c == BCmp(X, Y)
  IN  IF IsZero(x) THEN y
      ELSE IF IsZero(y) THEN x
      ELSE IF x.s = y.s THEN FRound(x.s, BAdd(X, Y), emin, FALSE)
      ELSE IF c = 0 THEN Zero
      ELSE IF c = 1 THEN FRound(x.s, BSub(X, Y), emin, FALSE)
      ELSE FRound(y.s, BSub(Y, X), emin, FALSE)

FinMul(x, y) == FRound(x.s * y.s, BMul(x.m, y.m), x.e + y.e, FALSE)

GuardBits == 5 * LimbBits

\* x / y for a divisor y whose odd part fits one limb (30, 365, 2, 12, 10^k)
FinDiv(x, y) ==
  LET d == BDivSmall(BShl(x.m, GuardBits), y.m[1])
  IN  FRound(x.s * y.s, d.q, x.e - y.e - GuardBits, d.r # 0)

FNeg(x) == IF IsZero(x) \/ x.k = "nan" THEN x ELSE [x EXCEPT !.s = -x.s]

\* float + float
FAdd(x, y) ==
  IF x.k = "nan" \/ y.k = "nan" THEN NaN
  ELSE IF x.k = "inf" /\ y.k = "inf" THEN (IF x.s = y.s THEN x ELSE NaN)
  ELSE IF x.k = "inf" THEN x
  ELSE IF y.k = "inf" THEN y
  ELSE FinAdd(x, y)

FSub(x, y) == FAdd(x, FNeg(y))

\* float * float
FMul(x, y) ==
  IF x.k = "nan" \/ y.k = "nan" THEN NaN
  ELSE IF x.k = "inf" \/ y.k = "inf"
       THEN (IF IsZero(x) \/ IsZero(y) THEN NaN ELSE Inf(x.s * y.s))
  ELSE FinMul(x, y)

\* float / float, the divisor finite and non-zero
FDiv(x, y) ==
  IF x.k = "nan" THEN NaN
  ELSE IF x.k = "inf" THEN Inf(x.s * y.s)
  ELSE IF IsZero(x) THEN Zero
  ELSE FinDiv(x, y)

\* x > 0 (False for nan)
FPos(x) == x.k \in {"fin", "inf"} /\ x.s = 1 /\ ~IsZero(x)

\* x <= y for finite x, y
FLe(x, y) == ~FPos(FinAdd(x, FNeg(y)))

FAbs(x) == [x EXCEPT !.s = 1]

\* the integer part of a finite float, towards zero
FTrunc(x) ==
  x.s * BToInt(IF x.e >= 0 THEN BShl(x.m, x.e) ELSE BShr(x.m, -x.e).q)

\* the float a decimal literal or a parsed decimal string denotes: n / 10^k
Dec(n, k) == FDiv(FInt(n), FInt(10^k))


(* ---------------- Subscription.value_score ---------------- *)

\* an operand that is no number (None, a str) raises TypeError; an exception
\* raised in a sub-expression propagates
Raised == Val("raise", 1, <<>>, 0)

Arith(x, y, r) == IF IsNum(x) /\ IsNum(y) THEN r ELSE Raised

PyTrueDiv(x, n) == Arith(x, Zero, FDiv(x, FInt(n)))
PyMul(x, y) == Arith(x, y, FMul(x, y))
PySub(x, y) == Arith(x, y, FSub(x, y))
PyAdd(x, y) == Arith(x, y, FAdd(x, y))

\* max(0, x): the first argument unless x compares greater
PyMax0(x) == IF ~IsNum(x) THEN Raised ELSE IF FPos(x) THEN x ELSE Zero

\* int(x): OverflowError for an infinity, ValueError for a nan
PyInt(x) == IF IsFin(x) THEN x ELSE Raised


\* (variant: every billing frequency but monthly taken as twelve months a year)
cost_per_day_by_month(s) ==
  IF s.billing_frequency = "monthly" THEN PyTrueDiv(s.cost, 30)
  ELSE PyTrueDiv(s.cost, 12)

cost_per_day(s) ==
  IF s.billing_frequency = "monthly" THEN PyTrueDiv(s.cost, 30)
  ELSE PyTrueDiv(s.cost, 365)


\* (variant: the cost score without its floor of 0)
cost_score_unclamped(s) ==
  PySub(FInt(100), PyMul(PyTrueDiv(cost_per_day(s), 2), FInt(100)))

cost_score(s) == PyMax0(PySub(FInt(100), PyMul(PyTrueDiv(cost_per_day(s), 2), FInt(100))))

usage_score(s) ==
  IF s.usage_frequency = "daily" THEN 100
  ELSE IF s.usage_frequency = "weekly" THEN 70
  ELSE IF s.usage_frequency = "monthly" THEN 30
  ELSE 10

\* the try block: the float handed to int(), or Raised
final_score(s) ==
  PyInt(PyAdd(PyMul(FInt(usage_score(s)), Dec(6, 1)),
              PyMul(cost_score(s), Dec(4, 1))))

Returned(n) == [done |-> TRUE, raised |-> FALSE, ret |-> n]
Propagated == [done |-> TRUE, raised |-> TRUE, ret |-> 0]


\* (variant: no except clause, the exception leaves value_score)
except_nothing(r) == IF r.k = "raise" THEN Propagated ELSE Returned(FTrunc(r))

\* the bare except: whatever the try block raised, return 0
except_clause(r) == IF r.k = "raise" THEN Returned(0) ELSE Returned(FTrunc(r))

value_score(s) == except_clause(final_score(s))

(* ---------------- state ---------------- *)
VARIABLES
  subs,      \* the subscription table: id -> row, for the ids that exist
  creator,   \* history: id -> the user whose add request inserted the row
  req,       \* the request handled last
  resp,      \* its response
  view,      \* the context the dashboard handed to index.html last
  obj,       \* a Subscription object in memory
  score      \* the outcome of obj.value_score()

vars == <<subs, creator, req, resp, view, obj, score>>

MaxId == 2
Ids == 1..MaxId

Users == {"alice", "bob"}
Anonymous == "anonymous"

\* date.today() as a day number, and the days a form may name
Days == {10, 11}

(* ---------------- SubscriptionForm ---------------- *)
BillingChoices == {"monthly", "yearly"}
UsageChoices == {"daily", "weekly", "monthly", "not_tracked"}
CategoryChoices == {"Entertainment", "Productivity", "Fitness", "Education", "Other"}

\* FloatField: float(text), or None when the text is no number
FloatField(text) == IF text.ok THEN Dec(text.n, text.k) ELSE None

\* DateField: the parsed date, or no data when the text is no %Y-%m-%d date
DateField(text) == [ok |-> text >= 0, day |-> text]

Num(n) == [ok |-> TRUE, n |-> n, k |-> 0]
NotANumber == [ok |-> FALSE, n |-> 0, k |-> 0]

\* the submitted fields, each as its field class parsed it
FormData(name, cost, billing, day, usage, category) ==
  [name |-> name, cost |-> FloatField(cost), billing_frequency |-> billing,
   next_billing_date |-> DateField(day), usage_frequency |-> usage,
   category |-> category]

\* the submissions the requests draw from
Forms ==
  { FormData("tv",    Num(10),    "monthly", 10, "daily",       "Entertainment"),
    FormData("cloud", Num(120),   "yearly",  24, "weekly",      "Productivity"),
    FormData("music", Num(5),     "monthly", 9,  "monthly",     "Entertainment"),
    FormData("games", Num(60),    "yearly",  25, "not_tracked", "Entertainment"),
    FormData("notes", Num(100),   "yearly",  24, "daily",       "Productivity"),
    FormData("gym",   Num(-5),    "monthly", 10, "not_tracked", "Fitness"),
    FormData("free",  Num(0),     "monthly", 10, "daily",       "Other"),
    FormData("word",  NotANumber, "yearly",  24, "weekly",      "Other"),
    FormData("paper", Num(10),    "weekly",  10, "weekly",      "Education"),
    FormData("late",  Num(10),    "monthly", -1, "daily",       "Education"),
    FormData("",      Num(10),    "monthly", 10, "daily",       "Education") }

\* DataRequired: the field's data is truthy (a float: neither None nor 0.0)
DataRequiredFloat(data) == IsNum(data) /\ ~IsZero(data)

\* form.validate() of a submitted form (the CSRF token taken as valid)
validate(form) ==
  /\ form.name # ""
  /\ DataRequiredFloat(form.cost)
  /\ form.billing_frequency \in BillingChoices
  /\ form.next_billing_date.ok
  /\ form.usage_frequency \in UsageChoices
  /\ form.category \in CategoryChoices

validate_on_submit(method, form) == method = "POST" /\ validate(form)

Row(form, user) ==
  [name |-> form.name, cost |-> form.cost,
   billing_frequency |-> form.billing_frequency,
   next_billing_date |-> form.next_billing_date.day,
   usage_frequency |-> form.usage_frequency,
   category |-> form.category, user_id |-> user]

(* ---------------- requests and responses ---------------- *)
Request(op, user, id, method) == [op |-> op, user |-> user, id |-> id, method |-> method]
NoRequest == Request("none", Anonymous, 0, "GET")

Response(status, to) == [status |-> status, to |-> to]
NoResponse == Response(0, "")
Redirect(to) == Response(302, to)
Render(template) == Response(200, template)
Abort(status) == Response(status, "")

NoView ==
  [shown |-> FALSE, user |-> Anonymous, today |-> 0, subscriptions |-> <<>>,
   monthly_total |-> Zero, category_spending |-> <<>>, recommendations |-> <<>>,
   potential_savings |-> Zero, upcoming_subscriptions |-> <<>>]

NoObject == [cost |-> None, billing_frequency |-> "", usage_frequency |-> ""]
NoScore == [done |-> FALSE, raised |-> FALSE, ret |-> 0]

\* @login_required
login_required(user) == user # Anonymous


\* (variant: the owner is not looked at)
not_owner_unchecked(subscription, user) == FALSE

\* subscription.owner != current_user
not_owner(subscription, user) == subscription.user_id # user

(* ---------------- add, edit, delete ---------------- *)
\* the id the database gives the new row: one no row has
add_subscription(user, method, form) ==
  /\ req' = Request("add", user, 0, method)
  /\ UNCHANGED <<view, obj, score>>
  /\ IF ~login_required(user)
     THEN resp' = Redirect("login") /\ UNCHANGED <<subs, creator>>
     ELSE IF validate_on_submit(method, form)
     THEN \E id \in Ids \ DOMAIN subs :
            /\ subs' = subs @@ (id :> Row(form, user))
            /\ creator' = creator @@ (id :> user)
            /\ resp' = Redirect("dashboard")
     ELSE resp' = Render("add_subscription.html") /\ UNCHANGED <<subs, creator>>

edit_subscription(user, method, subscription_id, form) ==
  /\ req' = Request("edit", user, subscription_id, method)
  /\ UNCHANGED <<creator, view, obj, score>>
  /\ IF ~login_required(user)
     THEN resp' = Redirect("login") /\ UNCHANGED subs
     ELSE IF subscription_id \notin DOMAIN subs
     THEN resp' = Abort(404) /\ UNCHANGED subs
     ELSE IF not_owner(subs[subscription_id], user)
     THEN resp' = Abort(403) /\ UNCHANGED subs
     ELSE IF validate_on_submit(method, form)
     THEN /\ subs' = [subs EXCEPT ![subscription_id] =
                        Row(form, subs[subscription_id].user_id)]
          /\ resp' = Redirect("dashboard")
     ELSE resp' = Render("edit_subscription.html") /\ UNCHANGED subs

delete_subscription(user, subscription_id) ==
  /\ req' = Request("delete", user, subscription_id, "POST")
  /\ UNCHANGED <<view, obj, score>>
  /\ IF ~login_required(user)
     THEN resp' = Redirect("login") /\ UNCHANGED <<subs, creator>>
     ELSE IF subscription_id \notin DOMAIN subs
     THEN resp' = Abort(404) /\ UNCHANGED <<subs, creator>>
     ELSE IF not_owner(subs[subscription_id], user)
     THEN resp' = Abort(403) /\ UNCHANGED <<subs, creator>>
     ELSE /\ subs' = [i \in DOMAIN subs \ {subscription_id} |-> subs[i]]
          /\ creator' = [i \in DOMAIN creator \ {subscription_id} |-> creator[i]]
          /\ resp' = Redirect("dashboard")

(* ---------------- dashboard ---------------- *)
\* Python values compared by ==: an int and a str are never equal
PyObject(type, val) == [type |-> type, val |-> val]
PyEq(a, b) == a.type = b.type /\ a.val = b.val

\* Subscription.query.filter_by(user_id=current_user.id)
\*   .order_by(Subscription.next_billing_date).all():
\* the user's rows in date order, rows of one date in an order the database picks
query_all(user) ==
  LET mine == {i \in DOMAIN subs : subs[i].user_id = user}
      n == Cardinality(mine)
  IN  { q \in [1..n -> mine] :
          /\ \A i, j \in 1..n : i # j => q[i] # q[j]
          /\ \A i, j \in 1..n :
               i < j => subs[q[i]].next_billing_date <= subs[q[j]].next_billing_date }

Front(q) == SubSeq(q, 1, Len(q) - 1)
Last(q) == q[Len(q)]

\* sum(s.cost for s in rows if s.billing_frequency == billing): from 0, left to
\* right (the costs here are whole numbers, whose sums are exact, so that a sum()
\* that compensates rounding errors gives the same total)
RECURSIVE sum_cost(_, _)
sum_cost(rows, billing) ==
  IF rows = <<>> THEN Zero
  ELSE IF subs[Last(rows)].billing_frequency = billing
  THEN FAdd(sum_cost(Front(rows), billing), subs[Last(rows)].cost)
  ELSE sum_cost(Front(rows), billing)


\* (variant: the yearly total added whole)
yearly_share_whole(yearly_total) == yearly_total

yearly_share(yearly_total) == FDiv(yearly_total, FInt(12))

\* monthly_total = sum(monthly); yearly_total = sum(yearly); monthly_total += yearly_total / 12
monthly_equivalent(rows) ==
  FAdd(sum_cost(rows, "monthly"), yearly_share(sum_cost(rows, "yearly")))


\* (variant: every cost taken as a yearly one)
category_cost_yearly(s) == FDiv(s.cost, FInt(12))

\* cost = s.cost if s.billing_frequency == 'monthly' else s.cost / 12
category_cost(s) ==
  IF s.billing_frequency = "monthly" THEN s.cost ELSE FDiv(s.cost, FInt(12))


\* (variant: the category's entry overwritten, not added to)
category_put_overwrite(category_spending, s) ==
  [c \in DOMAIN category_spending \cup {s.category} |->
     IF c = s.category THEN category_cost(s) ELSE category_spending[c]]

\* category_spending[s.category] = category_spending.get(s.category, 0) + cost
category_put(category_spending, s) ==
  LET before == IF s.category \in DOMAIN category_spending
                THEN category_spending[s.category] ELSE Zero
  IN  [c \in DOMAIN category_spending \cup {s.category} |->
         IF c = s.category THEN FAdd(before, category_cost(s))
         ELSE category_spending[c]]

RECURSIVE category_loop(_)
category_loop(rows) ==
  IF rows = <<>> THEN <<>>
  ELSE category_put(category_loop(Front(rows)), subs[Last(rows)])


\* (variant: a score under 50 counts as poor)
is_recommended_below_50(s) == value_score(s).ret < 50

\* s.value_score() == 'poor'
is_recommended(s) ==
  PyEq(PyObject("int", value_score(s).ret), PyObject("str", "poor"))

ReminderDays == 14


\* (variant: the threshold day itself left out)
is_upcoming_before_threshold(s, today) ==
  today <= s.next_billing_date /\ s.next_billing_date < today + ReminderDays

\* today <= s.next_billing_date <= reminder_threshold
is_upcoming(s, today) ==
  today <= s.next_billing_date /\ s.next_billing_date <= today + ReminderDays

dashboard_context(user, today, rows) ==
  LET recommendations == SelectSeq(rows, LAMBDA i : is_recommended(subs[i]))
  IN  [shown |-> TRUE, user |-> user, today |-> today,
       subscriptions |-> rows,
       monthly_total |-> monthly_equivalent(rows),
       category_spending |-> category_loop(rows),
       recommendations |-> recommendations,
       potential_savings |-> monthly_equivalent(recommendations),
       upcoming_subscriptions |->
         SelectSeq(rows, LAMBDA i : is_upcoming(subs[i], today))]

dashboard(user, today) ==
  /\ req' = Request("dashboard", user, 0, "GET")
  /\ UNCHANGED <<subs, creator, obj, score>>
  /\ IF ~login_required(user)
     THEN resp' = Redirect("login") /\ view' = NoView
     ELSE \E rows \in query_all(user) :
            /\ view' = dashboard_context(user, today, rows)
            /\ resp' = Render("index.html")

Methods == {"GET", "POST"}

\* request.form: the submitted fields of a POST, nothing on a GET
NoFormData == FormData("", NotANumber, "", -1, "", "")
request_form(method) == IF method = "POST" THEN Forms ELSE {NoFormData}

Init ==
  /\ subs = <<>>
  /\ creator = <<>>
  /\ req = NoRequest
  /\ resp = NoResponse
  /\ view = NoView
  /\ obj = NoObject
  /\ score = NoScore

Next ==
  \/ \E user \in Users \cup {Anonymous}, method \in Methods :
       \E form \in request_form(method) : add_subscription(user, method, form)
  \/ \E user \in Users \cup {Anonymous}, method \in Methods, id \in Ids :
       \E form \in request_form(method) : edit_subscription(user, method, id, form)
  \/ \E user \in Users \cup {Anonymous}, id \in Ids :
       delete_subscription(user, id)

Spec == Init /\ [][Next]_vars

(* ---------------- the dashboard over a stored table ---------------- *)
\* the rows the forms can store: Row(form, user) of a form that validates
Storable == {Row(form, user) : form \in {f \in Forms : validate(f)}, user \in Users}

Tables == UNION {[D -> Storable] : D \in SUBSET Ids}

InitDash ==
  /\ subs \in Tables
  /\ creator = [i \in DOMAIN subs |-> subs[i].user_id]
  /\ req = NoRequest
  /\ resp = NoResponse
  /\ view = NoView
  /\ obj = NoObject
  /\ score = NoScore

\* one dashboard request on the table drawn: the context is a function of the
\* table, the user and the date alone
NextDash ==
  /\ req = NoRequest
  /\ \E user \in Users \cup {Anonymous}, today \in Days : dashboard(user, today)

SpecDash == InitDash /\ [][NextDash]_vars

(* ---------------- value_score over Subscription objects ---------------- *)
ScoreCosts ==
  { Dec(0, 0), Dec(60, 0), Dec(730, 0), Dec(33, 0), Dec(4015, 1), Dec(999, 2),
    Dec(15, 1), Dec(5999, 2), Dec(6001, 2), Dec(1000, 0), Dec(72999, 2),
    Dec(-5, 0), Dec(-12345, 2), Inf(1), Inf(-1), NaN, None, Str }

Subscriptions ==
  { [cost |-> c, billing_frequency |-> b, usage_frequency |-> u] :
      c \in ScoreCosts,
      b \in {"monthly", "yearly", "weekly"},
      u \in {"daily", "weekly", "monthly", "not_tracked", "Not Tracked"} }

InitScore ==
  /\ subs = <<>>
  /\ creator = <<>>
  /\ req = NoRequest
  /\ resp = NoResponse
  /\ view = NoView
  /\ obj \in Subscriptions
  /\ score = NoScore

call_value_score ==
  /\ ~score.done
  /\ score' = value_score(obj)
  /\ UNCHANGED <<subs, creator, req, resp, view, obj>>

NextScore == call_value_score

SpecScore == InitScore /\ [][NextScore]_vars

(* ======================= the claims ======================= *)

(* ---- helpers of the statements ---- *)
Scored(c, b, u) == [cost |-> c, billing_frequency |-> b, usage_frequency |-> u]

\* cost >= 0 as Python compares it
NonNegative(c) == (c.k = "fin" /\ c.s = 1) \/ c = Inf(1)

\* floor of a finite float
FFloor(x) ==
  IF x.e >= 0 THEN x.s * BToInt(BShl(x.m, x.e))
  ELSE LET t == BShr(x.m, -x.e)
       IN  IF x.s = 1 THEN BToInt(t.q)
           ELSE -(BToInt(t.q) + (IF t.lost THEN 1 ELSE 0))

StatedUsageScore(u) ==
  CASE u = "daily" -> 100 [] u = "weekly" -> 70 [] u = "monthly" -> 30 [] OTHER -> 10

StatedCostScore(o) ==
  LET per_day == FDiv(o.cost, FInt(IF o.billing_frequency = "monthly" THEN 30 ELSE 365))
      raw == FSub(FInt(100), FMul(FDiv(per_day, FInt(2)), FInt(100)))
  IN  IF FPos(raw) THEN raw ELSE Zero

StatedScore(o) ==
  FFloor(FAdd(FMul(FInt(StatedUsageScore(o.usage_frequency)), Dec(6, 1)),
              FMul(StatedCostScore(o), Dec(4, 1))))

Range(q) == {q[i] : i \in 1..Len(q)}

\* the rows of the user the dashboard was rendered for
Mine == {i \in DOMAIN subs : subs[i].user_id = view.user}

\* the rendered list is the user's rows, each once
ListsMine == Range(view.subscriptions) = Mine /\ Len(view.subscriptions) = Cardinality(Mine)

\* the float sum of the first n of a list of floats, in list order
RECURSIVE FSum(_, _)
FSum(terms, n) == IF n = 0 THEN Zero ELSE FAdd(FSum(terms, n - 1), terms[n])

\* the rendered rows
Listed == [n \in 1..Len(view.subscriptions) |-> subs[view.subscriptions[n]]]

Total(terms) == FSum(terms, Len(terms))

CostIf(billing, r) == IF r.billing_frequency = billing THEN r.cost ELSE Zero

MonthlyEquivalent(r) ==
  IF r.billing_frequency = "monthly" THEN r.cost
  ELSE IF r.billing_frequency = "yearly" THEN FDiv(r.cost, FInt(12))
  ELSE Zero

\* the categories in the order the dict received them
RECURSIVE KeyOrder(_, _)
KeyOrder(q, n) ==
  IF n = 0 THEN <<>>
  ELSE LET o == KeyOrder(q, n - 1)
           c == subs[q[n]].category
       IN  IF c \in Range(o) THEN o ELSE Append(o, c)

RECURSIVE SumValues(_, _, _)
SumValues(d, keys, n) ==
  IF n = 0 THEN Zero ELSE FAdd(SumValues(d, keys, n - 1), d[keys[n]])

\* sum(category_spending.values())
CategorySum ==
  LET keys == KeyOrder(view.subscriptions, Len(view.subscriptions))
  IN  SumValues(view.category_spending, keys, Len(keys))

HasRow(cost, billing) ==
  \E i \in Mine : subs[i].cost = FInt(cost) /\ subs[i].billing_frequency = billing

(* C1: for every subscription with cost >= 0, every billing_frequency and   *)
(* every usage_frequency, value_score() returns an integer s, 0 <= s <= 100 *)
C1_ScoreInRange ==
  (score.done /\ NonNegative(obj.cost)) =>
    (~score.raised /\ 0 <= score.ret /\ score.ret <= 100)

\* a call on a cost >= 0 that reached the top of the range
C1_Witness == score.done /\ NonNegative(obj.cost) /\ score.ret = 100

C3_MonthlyTotal ==
  view.shown =>
    /\ ListsMine
    /\ view.monthly_total =
         LET monthly == [n \in DOMAIN Listed |-> CostIf("monthly", Listed[n])]
             yearly == [n \in DOMAIN Listed |-> CostIf("yearly", Listed[n])]
         IN  FAdd(Total(monthly), FDiv(Total(yearly), FInt(12)))
    /\ (Cardinality(Mine) = 2 /\ HasRow(10, "monthly") /\ HasRow(120, "yearly"))
         => view.monthly_total = FInt(20)

\* the dashboard of a user with one monthly row at 10 and one yearly row at 120
C3_Witness ==
  /\ view.shown /\ Cardinality(Mine) = 2
  /\ HasRow(10, "monthly") /\ HasRow(120, "yearly")
  /\ view.monthly_total = FInt(20)

(* C4: category_spending maps each category that occurs among the user's    *)
(* subscriptions, and no other key, to the sum over that category's         *)
(* subscriptions of their monthly-equivalent cost: the cost as it is for a  *)
(* monthly-billed one, cost/12 for a yearly-billed one                      *)
C4_CategorySpending ==
  view.shown =>
    /\ ListsMine
    /\ DOMAIN view.category_spending = {subs[i].category : i \in Mine}
    /\ \A c \in DOMAIN view.category_spending :
         view.category_spending[c] =
           Total([n \in DOMAIN Listed |->
                    IF Listed[n].category = c THEN MonthlyEquivalent(Listed[n])
                    ELSE Zero])

\* Entertainment holding a monthly 5 and a yearly 60: 5 + 5 = 10
C4_Witness ==
  /\ view.shown /\ Cardinality(Mine) = 2
  /\ HasRow(5, "monthly") /\ HasRow(60, "yearly")
  /\ \A i \in Mine : subs[i].category = "Entertainment"
  /\ view.category_spending = [c \in {"Entertainment"} |-> FInt(10)]

(* C5: a subscription of the user is in upcoming_subscriptions if and only  *)
(* if today <= next_billing_date <= today + 14, both ends included: today   *)
(* + 14 is in, today + 15 and today - 1 are out                             *)
C5_UpcomingWindow ==
  view.shown =>
    /\ Range(view.upcoming_subscriptions) \subseteq Mine
    /\ \A i \in Mine :
         (i \in Range(view.upcoming_subscriptions)) <=>
           (view.today <= subs[i].next_billing_date
              /\ subs[i].next_billing_date <= view.today + 14)
    /\ \A i \in Mine :
         /\ subs[i].next_billing_date = view.today + 14
              => i \in Range(view.upcoming_subscriptions)
         /\ subs[i].next_billing_date \in {view.today + 15, view.today - 1}
              => i \notin Range(view.upcoming_subscriptions)

\* a row due on today + 14 is listed while a row due on today + 15 is not
C5_Witness ==
  /\ view.shown
  /\ \E i \in Range(view.upcoming_subscriptions) :
       subs[i].next_billing_date = view.today + 14
  /\ \E j \in Mine :
       /\ subs[j].next_billing_date = view.today + 15
       /\ j \notin Range(view.upcoming_subscriptions)

(* C6: value_score() never raises: when a step of the computation fails     *)
(* (the cost is missing or no number, or int() is handed an infinity) the   *)
(* call returns the integer 0                                               *)
ComputationFails(o) == o.cost.k \in {"none", "str"} \/ o.cost = Inf(-1)

C6_NeverRaises ==
  score.done => (~score.raised /\ (ComputationFails(obj) => score = Returned(0)))

\* a call on a subscription whose cost is None has returned 0
C6_Witness == score.done /\ obj.cost = None /\ score = Returned(0)

(* C7: whatever the costs and usage frequencies, the dashboard's            *)
(* recommendations list is empty and potential_savings is 0, value_score()  *)
(* returning an integer, which never equals the string 'poor'               *)
C7_NoRecommendations ==
  view.shown =>
    /\ view.recommendations = <<>>
    /\ IsZero(view.potential_savings)
    /\ \A i \in Mine : value_score(subs[i]).ret \in Int

\* a dashboard of two rows, one of them scoring under 50
C7_Witness ==
  /\ view.shown /\ Len(view.subscriptions) = 2
  /\ \E i \in Mine : value_score(subs[i]).ret < 50
  /\ view.recommendations = <<>>

(* C8: after any sequence of successfully validated add and edit            *)
(* submissions, every stored subscription has cost > 0                      *)
C8_StoredCostsPositive == \A i \in DOMAIN subs : FPos(subs[i].cost)

(* C9: each stored subscription's owner is always the user whose add        *)
(* request created it, and an edit or delete request for an existing        *)
(* subscription made by a logged-in user other than its owner is answered   *)
(* 403 and leaves every stored subscription unchanged                       *)
OwnerIsCreator ==
  DOMAIN creator = DOMAIN subs /\ \A i \in DOMAIN subs : subs[i].user_id = creator[i]

NonOwnerRejected ==
  (/\ req'.op \in {"edit", "delete"}
   /\ req'.user \in Users
   /\ req'.id \in DOMAIN subs
   /\ subs[req'.id].user_id # req'.user)
    => (resp'.status = 403 /\ subs' = subs)

C9_Ownership == []OwnerIsCreator /\ [][NonOwnerRejected]_vars

\* an edit POST by a user who does not own the row has been answered 403
C9_Witness ==
  /\ req.op = "edit" /\ req.method = "POST" /\ req.user \in Users
  /\ req.id \in DOMAIN subs
  /\ subs[req.id].user_id # req.user
  /\ creator[req.id] = subs[req.id].user_id
  /\ resp.status = 403

Tolerance ==
  LET total == Total([n \in DOMAIN Listed |-> FAbs(Listed[n].cost)])
  IN  IF IsZero(total) THEN Zero ELSE [total EXCEPT !.e = @ - 40]

====
